---- MODULE Spec2Model ----
(***************************************************************************)
(* Print audit (Appv3.py): reconciliation of POS sales lines against the   *)
(* Fuji printer log.  Texts are sequences of one-character strings, so     *)
(* that pattern matching, case folding and number parsing are computed     *)
(* character by character as the pandas / re calls of the script do.       *)
(* A nullable cell (pandas NaN / None) is the empty tuple, a present value *)
(* v is the one-element tuple <<v>>.  Numbers are integers: the inputs     *)
(* hold no fractional quantities and identifiers stay far below 2^53, so   *)
(* the float64 columns of the script hold them exactly.                    *)
(***************************************************************************)
EXTENDS Integers, Sequences, FiniteSets, TLC

VARIABLES pos_file, fuji_file, pc, pos_df, pos_print, pos_grouped, fuji_df,
          anonymous_summary, fuji_with_dr, fuji_grouped, merged, unprinted,
          matched, mismatches, selected_dr, proof

vars == <<pos_file, fuji_file, pc, pos_df, pos_print, pos_grouped, fuji_df,
          anonymous_summary, fuji_with_dr, fuji_grouped, merged, unprinted,
          matched, mismatches, selected_dr, proof>>

results == <<pos_df, pos_print, pos_grouped, fuji_df, anonymous_summary,
             fuji_with_dr, fuji_grouped, merged, unprinted, matched,
             mismatches>>

\* ---------------------------------------------------------------- bounds
\* Largest number of rows of an uploaded POS table / printer table.
MaxPos == 2
MaxFuji == 2
\* Largest number of rows of the two uploaded tables together.
MaxRows == 4

\* ------------------------------------------------------- nullable values
NaN == <<>>
Some(v) == <<v>>
isnull(c) == c = NaN
notnull(c) == c # NaN
Val(c) == c[1]

\* --------------------------------------------------------------- texts
LowerCase == <<"a", "b", "c", "d", "e", "f", "g", "h", "i", "j", "k", "l", "m", "n", "o", "p", "q", "r", "s", "t", "u", "v", "w", "x", "y", "z">>
UpperCase == <<"A", "B", "C", "D", "E", "F", "G", "H", "I", "J", "K", "L", "M", "N", "O", "P", "Q", "R", "S", "T", "U", "V", "W", "X", "Y", "Z">>
Digits == <<"0", "1", "2", "3", "4", "5", "6", "7", "8", "9">>
\* Code-point order of the characters the inputs use (Python compares str
\* values by code point).
CodePoints == <<" ", ",", "-", "/", "0", "1", "2", "3", "4", "5", "6", "7", "8", "9", "A", "B", "C", "D", "E", "F", "G", "H", "I", "J", "K", "L", "M", "N", "O", "P", "Q", "R", "S", "T", "U", "V", "W", "X", "Y", "Z", "a", "b", "c", "d", "e", "f", "g", "h", "i", "j", "k", "l", "m", "n", "o", "p", "q", "r", "s", "t", "u", "v", "w", "x", "y", "z">>

IndexOf(seq, c) == CHOOSE i \in 1..Len(seq) : seq[i] = c
InSeq(seq, c) == \E i \in 1..Len(seq) : seq[i] = c
ord(c) == IndexOf(CodePoints, c)
isdigit(c) == InSeq(Digits, c)
isspace(c) == c \in {" ", "\t", "\n"}
upperChar(c) == IF InSeq(LowerCase, c) THEN UpperCase[IndexOf(LowerCase, c)] ELSE c
upper(s) == [i \in 1..Len(s) |-> upperChar(s[i])]

\* str < str of Python: lexicographic by code point, a proper prefix first.
RECURSIVE StrLess(_, _)
StrLess(a, b) ==
    IF b = <<>> THEN FALSE
    ELSE IF a = <<>> THEN TRUE
    ELSE IF a[1] # b[1] THEN ord(a[1]) < ord(b[1])
    ELSE StrLess(Tail(a), Tail(b))

\* pat in s (substring test)
contains(s, pat) ==
    \E i \in 1..(Len(s) - Len(pat) + 1) : SubSeq(s, i, i + Len(pat) - 1) = pat

\* Series.str.contains(pat, case=False, na=False) for a literal pattern.
contains_nocase(s, pat) == contains(upper(s), upper(pat))

\* str.replace(',', '')
RECURSIVE remove_commas(_)
remove_commas(s) ==
    IF s = <<>> THEN <<>>
    ELSE IF s[1] = "," THEN remove_commas(Tail(s))
    ELSE <<s[1]>> \o remove_commas(Tail(s))

\* str.strip()
RECURSIVE lstrip(_)
lstrip(s) == IF s # <<>> /\ isspace(s[1]) THEN lstrip(Tail(s)) ELSE s
RECURSIVE rstrip(_)
rstrip(s) ==
    IF s # <<>> /\ isspace(s[Len(s)]) THEN rstrip(SubSeq(s, 1, Len(s) - 1)) ELSE s
strip(s) == rstrip(lstrip(s))

\* int() of a run of decimal digits
RECURSIVE digits_value(_)
digits_value(s) ==
    IF s = <<>> THEN 0
    ELSE 10 * digits_value(SubSeq(s, 1, Len(s) - 1)) + (IndexOf(Digits, s[Len(s)]) - 1)

\* pd.to_numeric(text, errors='coerce'): the number, or NaN when the text is
\* not a number.  The texts of the inputs are unsigned decimal integers or
\* not numbers at all.
to_numeric(s) ==
    IF s # <<>> /\ \A i \in 1..Len(s) : isdigit(s[i]) THEN Some(digits_value(s)) ELSE NaN

\* ------------------------------------------------- identifier extraction
\* The longest run of digits of s starting at position i (\d+ is greedy).
RECURSIVE digit_run(_, _)
digit_run(s, i) ==
    IF i <= Len(s) /\ isdigit(s[i]) THEN <<s[i]>> \o digit_run(s, i + 1) ELSE <<>>

\* The position after the white space starting at i (\s* is greedy).
RECURSIVE skip_space(_, _)
skip_space(s, i) == IF i <= Len(s) /\ isspace(s[i]) THEN skip_space(s, i + 1) ELSE i

\* Positions where r'DR(\d+)' matches.
match_DR(s) ==
    {i \in 1..Len(s) : /\ i + 2 <= Len(s)
                       /\ s[i] = "D" /\ s[i + 1] = "R"
                       /\ isdigit(s[i + 2])}

\* Positions where r'DR\s*(\d+)' matches.
match_DR_space(s) ==
    {i \in 1..Len(s) : /\ i + 1 <= Len(s)
                       /\ s[i] = "D" /\ s[i + 1] = "R"
                       /\ skip_space(s, i + 2) <= Len(s)
                       /\ isdigit(s[skip_space(s, i + 2)])}

Min(S) == CHOOSE x \in S : \A y \in S : x <= y
Max(S) == CHOOSE x \in S : \A y \in S : y <= x

\* str.extract(r'DR(\d+)').astype(float): group 1 of the first match.
extract_DR(s) ==
    IF match_DR(s) = {} THEN NaN
    ELSE Some(digits_value(digit_run(s, Min(match_DR(s)) + 2)))

\* str.extract(r'DR\s*(\d+)').astype(float)
extract_DR_space(s) ==
    IF match_DR_space(s) = {} THEN NaN
    ELSE Some(digits_value(digit_run(s, skip_space(s, Min(match_DR_space(s)) + 2))))

\* ------------------------------------------------------------ sequences
RECURSIVE SortedSeq(_)
\* The elements of a finite set of numbers in ascending order.
SortedSeq(S) == IF S = {} THEN <<>> ELSE <<Min(S)>> \o SortedSeq(S \ {Min(S)})

Range(seq) == {seq[i] : i \in 1..Len(seq)}

RECURSIVE SeqsUpTo(_, _)
\* Every sequence of at most n elements of S.
SeqsUpTo(S, n) ==
    IF n = 0 THEN {<<>>}
    ELSE LET shorter == SeqsUpTo(S, n - 1)
         IN  shorter \cup {Append(t, r) : t \in shorter, r \in S}

RECURSIVE nansum(_)
\* Series.sum() (skipna=True): NaN cells add nothing, an empty sum is 0.
nansum(cells) ==
    IF cells = <<>> THEN 0
    ELSE (IF isnull(cells[1]) THEN 0 ELSE Val(cells[1])) + nansum(Tail(cells))

RECURSIVE sum(_)
sum(nums) == IF nums = <<>> THEN 0 ELSE nums[1] + sum(Tail(nums))

abs(n) == IF n < 0 THEN -n ELSE n

\* ---------------------------------------------------------------- inputs
\* Rows an uploaded POS table is made of: columns Invoice No., Item Name,
\* Sales Qty, Customer Name.
PosRows ==
    { [Invoice_No |-> <<"D", "R", "1", "0", "0">>, Item_Name |-> <<"D", "I", "G", "I", "T", "A", "L", " ", "P", "R", "I", "N", "T", " ", "1", " ", "S", "I", "D", "E">>,
       Sales_Qty |-> <<"5">>, Customer_Name |-> "Acme"],
      [Invoice_No |-> <<"D", "R", "1", "0", "0">>, Item_Name |-> <<"D", "i", "g", "i", "t", "a", "l", " ", "P", "r", "i", "n", "t", " ", "2", " ", "S", "i", "d", "e", "s">>,
       Sales_Qty |-> <<"1", "0">>, Customer_Name |-> "Bolt"],
      [Invoice_No |-> <<"D", "R", "0">>, Item_Name |-> <<"D", "I", "G", "I", "T", "A", "L", " ", "P", "R", "I", "N", "T", " ", "1", " ", "S", "I", "D", "E">>,
       Sales_Qty |-> <<"5">>, Customer_Name |-> "Cole"],
      [Invoice_No |-> <<"I", "N", "V", "-", "9", "9", "9">>, Item_Name |-> <<"D", "I", "G", "I", "T", "A", "L", " ", "P", "R", "I", "N", "T", " ", "1", " ", "S", "I", "D", "E">>,
       Sales_Qty |-> <<"1", ",", "2", "0", "0">>, Customer_Name |-> "Dane"],
      [Invoice_No |-> <<"D", "R", "1", "0", "0">>, Item_Name |-> <<"D", "I", "G", "I", "T", "A", "L", " ", "P", "R", "I", "N", "T", " ", "P", "R", "O", "O", "F">>,
       Sales_Qty |-> <<"5">>, Customer_Name |-> "Acme"],
      [Invoice_No |-> <<"D", "R", "7">>, Item_Name |-> <<"d", "i", "g", "i", "t", "a", "l", " ", "p", "r", "i", "n", "t", " ", "s", "t", "i", "c", "k", "e", "r">>,
       Sales_Qty |-> <<" ", "1", "0", " ">>, Customer_Name |-> "Bolt"],
      [Invoice_No |-> <<"D", "R", "7">>, Item_Name |-> <<"D", "I", "G", "I", "T", "A", "L", " ", "P", "R", "I", "N", "T", " ", "2", " ", "S", "I", "D", "E", "S">>,
       Sales_Qty |-> <<"a", "b", "c">>, Customer_Name |-> "Bolt"],
      [Invoice_No |-> <<"d", "r", "1", "0", "0">>, Item_Name |-> <<"T", "A", "R", "P", "A", "U", "L", "I", "N">>,
       Sales_Qty |-> <<"5">>, Customer_Name |-> "Acme"] }

\* Rows an uploaded printer table is made of: columns Job Name, Printed
\* Pages, Owner, Recorded Date/Time.  An empty cell is read as NaN.
FujiRows ==
    { [Job_Name |-> <<"J", "o", "b", " ", "D", "R", "1", "0", "0">>, Printed_Pages |-> Some(<<"5">>),
       Owner |-> Some(<<"A", "l", "i", "c", "e">>), Recorded |-> 1],
      [Job_Name |-> <<"J", "o", "b", " ", "D", "R", "1", "0", "0">>, Printed_Pages |-> Some(<<"8">>),
       Owner |-> Some(<<"B", "o", "b">>), Recorded |-> 2],
      [Job_Name |-> <<"J", "o", "b", " ", "D", "R", "1", "0", "0">>, Printed_Pages |-> Some(<<"2", "0">>),
       Owner |-> Some(<<"A", "l", "i", "c", "e">>), Recorded |-> 2],
      [Job_Name |-> <<"D", "R", " ", "0">>, Printed_Pages |-> Some(<<"2", "0">>),
       Owner |-> Some(<<"A", "l", "i", "c", "e">>), Recorded |-> 1],
      [Job_Name |-> <<"D", "R", "7", " ", "r", "e", "r", "u", "n">>, Printed_Pages |-> Some(<<"n", "/", "a">>),
       Owner |-> Some(<<"B", "o", "b">>), Recorded |-> 1],
      [Job_Name |-> <<"B", "a", "n", "n", "e", "r", " ", "A">>, Printed_Pages |-> Some(<<"5">>),
       Owner |-> Some(<<"A", "l", "i", "c", "e">>), Recorded |-> 1],
      [Job_Name |-> <<"B", "a", "n", "n", "e", "r", " ", "A">>, Printed_Pages |-> Some(<<"7">>),
       Owner |-> Some(<<"A", "l", "i", "c", "e">>), Recorded |-> 2],
      [Job_Name |-> <<"A", "p", "p", "l", "e">>, Printed_Pages |-> Some(<<"5">>),
       Owner |-> Some(<<"B", "o", "b">>), Recorded |-> 2],
      [Job_Name |-> <<"j", "o", "b", " ", "d", "r", "1", "0", "0">>, Printed_Pages |-> NaN,
       Owner |-> Some(<<"B", "o", "b">>), Recorded |-> 1],
      [Job_Name |-> <<"P", "o", "s", "t", "e", "r">>, Printed_Pages |-> Some(<<"3">>),
       Owner |-> NaN, Recorded |-> 2] }

PosTables == SeqsUpTo(PosRows, MaxPos)
FujiTables == SeqsUpTo(FujiRows, MaxFuji)
\* Number of rows of an uploaded file, 0 for none.
file_rows(file) == IF isnull(file) THEN 0 ELSE Len(Val(file))

\* ------------------------------------------------------------- 1. POS prep
\* The row with one more column.
with_column(row, name, cell) ==
    [c \in DOMAIN row \cup {name} |-> IF c = name THEN cell ELSE row[c]]

\* pos_df['DR_Num'] = pos_df['Invoice No.'].astype(str).str.extract(r'DR(\d+)')
\* for one row, and for the rows of PosRows (computed once).
pos_row_with_DR(row) == with_column(row, "DR_Num", extract_DR(row.Invoice_No))
pos_rows_with_DR == [r \in PosRows |-> pos_row_with_DR(r)]
pos_with_DR(df) == [i \in 1..Len(df) |-> pos_rows_with_DR[df[i]]]

\* The two item-name filters: DIGITAL PRINT, then not PROOF|STICKER.
is_digital_print(row) == contains_nocase(row.Item_Name, <<"D", "I", "G", "I", "T", "A", "L", " ", "P", "R", "I", "N", "T">>)
is_excluded(row) ==
    \/ contains_nocase(row.Item_Name, <<"P", "R", "O", "O", "F">>)
    \/ contains_nocase(row.Item_Name, <<"S", "T", "I", "C", "K", "E", "R">>)
\* The filter without its second line: proofs and stickers stay in.
pos_print_filter_no_exclusion(row) == is_digital_print(row)

pos_print_filter(row) == is_digital_print(row) /\ ~is_excluded(row)
pos_print_rows == {pos_rows_with_DR[r] : r \in {x \in PosRows : pos_print_filter(x)}}
is_pos_print(row) == row \in pos_print_rows

\* bool(x) of a number: only 0 is false; NaN is true.
truthy(q) == isnull(q) \/ Val(q) # 0
\* x or 0
or_zero(q) == IF truthy(q) THEN q ELSE Some(0)
\* x * n on nullable numbers: NaN * n is NaN.
times(q, n) == IF isnull(q) THEN NaN ELSE Some(Val(q) * n)

\* calc_pages testing '2 SIDES' against the item name as written.
calc_pages_case_sensitive(row) ==
    LET qty_str == strip(remove_commas(row.Sales_Qty))
        qty == or_zero(to_numeric(qty_str))
    IN  IF contains(row.Item_Name, <<"2", " ", "S", "I", "D", "E", "S">>) THEN times(qty, 2) ELSE qty

calc_pages(row) ==
    LET qty_str == strip(remove_commas(row.Sales_Qty))
        qty == or_zero(to_numeric(qty_str))
    IN  IF contains(upper(row.Item_Name), <<"2", " ", "S", "I", "D", "E", "S">>) THEN times(qty, 2) ELSE qty

\* pos_print['Expected_Pages'] = pos_print.apply(calc_pages, axis=1), for the
\* retained rows of PosRows (computed once).
rows_with_Expected_Pages ==
    [r \in pos_print_rows |-> with_column(r, "Expected_Pages", calc_pages(r))]
with_Expected_Pages(df) == [i \in 1..Len(df) |-> rows_with_Expected_Pages[df[i]]]

make_pos_print(df) == with_Expected_Pages(SelectSeq(df, is_pos_print))

\* The keys of groupby('DR_Num'): dropna=True leaves the NaN key out.
group_keys(df) == {Val(df[i].DR_Num) : i \in {j \in 1..Len(df) : notnull(df[j].DR_Num)}}

\* The rows of df of the group k, in table order.
group_rows(df, k) ==
    LET in_group(row) == row.DR_Num = Some(k) IN SelectSeq(df, in_group)

column(df, c) == [i \in 1..Len(df) |-> df[i][c]]

\* groupby('DR_Num').agg(first, first, sum).reset_index(): one row per key,
\* keys ascending.
make_pos_grouped(print) ==
    LET keys == SortedSeq(group_keys(print))
    IN  [i \in 1..Len(keys) |->
            LET g == group_rows(print, keys[i])
            IN  [DR_Num |-> keys[i],
                 Invoice_No |-> g[1].Invoice_No,
                 Customer_Name |-> g[1].Customer_Name,
                 Expected_Pages |-> nansum(column(g, "Expected_Pages"))]]

\* ------------------------------------------------------------ 2. Fuji prep
\* pd.to_numeric(fuji_df['Printed Pages'], errors='coerce').fillna(0)
coerce_pages(cell) ==
    LET n == IF isnull(cell) THEN NaN ELSE to_numeric(Val(cell))
    IN  IF isnull(n) THEN 0 ELSE Val(n)

\* Both assignments of the Fuji prep for one row: Printed Pages coerced and
\* DR_Num = Job Name .astype(str).str.extract(r'DR\s*(\d+)'); and for the
\* rows of FujiRows (computed once).
fuji_row_prep(row) ==
    with_column([row EXCEPT !.Printed_Pages = coerce_pages(@)],
                "DR_Num", extract_DR_space(row.Job_Name))
fuji_rows_prep == [r \in FujiRows |-> fuji_row_prep(r)]
make_fuji_df(df) == [i \in 1..Len(df) |-> fuji_rows_prep[df[i]]]

\* ------------------------------------------------- 3. categorize Fuji prints
has_no_DR(row) == isnull(row.DR_Num)
has_DR(row) == notnull(row.DR_Num)

make_anonymous_raw(df) == SelectSeq(df, has_no_DR)

\* The keys of groupby(['Job Name', 'Owner']): dropna=True leaves out every
\* row with a NaN key cell.
anon_keys(raw) ==
    {<<raw[i].Job_Name, Val(raw[i].Owner)>> : i \in {j \in 1..Len(raw) : notnull(raw[j].Owner)}}

\* Order of the (Job Name, Owner) keys: groupby sorts the keys.
KeyLess(a, b) == StrLess(a[1], b[1]) \/ (a[1] = b[1] /\ StrLess(a[2], b[2]))

RECURSIVE SortedKeys(_)
SortedKeys(K) ==
    IF K = {} THEN <<>>
    ELSE LET least == CHOOSE k \in K : \A o \in K \ {k} : KeyLess(k, o)
         IN  <<least>> \o SortedKeys(K \ {least})

anon_group_rows(raw, k) ==
    LET in_group(row) == row.Job_Name = k[1] /\ row.Owner = Some(k[2])
    IN  SelectSeq(raw, in_group)

\* groupby(['Job Name', 'Owner']).agg(sum, max).reset_index(), Owner renamed
\* to Artist Name.
anonymous_grouped(raw) ==
    LET keys == SortedKeys(anon_keys(raw))
    IN  [i \in 1..Len(keys) |->
            LET g == anon_group_rows(raw, keys[i])
            IN  [Job_Name |-> keys[i][1],
                 Artist_Name |-> keys[i][2],
                 Printed_Pages |-> sum(column(g, "Printed_Pages")),
                 Recorded |-> Max(Range(column(g, "Recorded")))]]

is_descending(s) ==
    \A i \in 1..Len(s) - 1 : s[i].Printed_Pages >= s[i + 1].Printed_Pages

\* sort_values(by='Printed Pages', ascending=False) with the default
\* kind='quicksort', which is not stable: the rows come out by descending
\* key, rows with equal keys in an order the call does not specify.
sort_values_desc(df) ==
    {s \in [1..Len(df) -> Range(df)] : Range(s) = Range(df) /\ is_descending(s)}

make_fuji_with_dr(df) == SelectSeq(df, has_DR)

\* groupby('DR_Num')['Printed Pages'].sum().reset_index()
make_fuji_grouped(with_dr) ==
    LET keys == SortedSeq(group_keys(with_dr))
    IN  [i \in 1..Len(keys) |->
            [DR_Num |-> keys[i],
             Printed_Pages |-> sum(column(group_rows(with_dr, keys[i]), "Printed_Pages"))]]

\* --------------------------------------------------------- 4. reconciliation
key_set(grouped) == {grouped[i].DR_Num : i \in 1..Len(grouped)}
row_of(grouped, k) == grouped[CHOOSE i \in 1..Len(grouped) : grouped[i].DR_Num = k]

\* A merge with how='left': the keys of the right side alone are lost.
outer_merge_as_left(left, right) ==
    LET keys == SortedSeq(key_set(left))
    IN  [i \in 1..Len(keys) |->
            LET k == keys[i]
                inr == k \in key_set(right)
            IN  [DR_Num |-> k,
                 Invoice_No |-> Some(row_of(left, k).Invoice_No),
                 Customer_Name |-> Some(row_of(left, k).Customer_Name),
                 Expected_Pages |-> Some(row_of(left, k).Expected_Pages),
                 Printed_Pages |-> IF inr THEN Some(row_of(right, k).Printed_Pages) ELSE NaN,
                 merge |-> IF inr THEN "both" ELSE "left_only"]]

\* pd.merge(pos_grouped, fuji_grouped, on='DR_Num', how='outer',
\* indicator=True): one row per key of either side, keys ascending, the
\* columns of a missing side NaN.
outer_merge(left, right) ==
    LET keys == SortedSeq(key_set(left) \cup key_set(right))
    IN  [i \in 1..Len(keys) |->
            LET k == keys[i]
                inl == k \in key_set(left)
                inr == k \in key_set(right)
            IN  [DR_Num |-> k,
                 Invoice_No |-> IF inl THEN Some(row_of(left, k).Invoice_No) ELSE NaN,
                 Customer_Name |-> IF inl THEN Some(row_of(left, k).Customer_Name) ELSE NaN,
                 Expected_Pages |-> IF inl THEN Some(row_of(left, k).Expected_Pages) ELSE NaN,
                 Printed_Pages |-> IF inr THEN Some(row_of(right, k).Printed_Pages) ELSE NaN,
                 merge |-> IF inl /\ inr THEN "both"
                           ELSE IF inl THEN "left_only" ELSE "right_only"]]

is_left_only(row) == row.merge = "left_only"
is_both(row) == row.merge = "both"

make_unprinted(m) == SelectSeq(m, is_left_only)

\* Diff with the operands exchanged.
with_Diff_reversed(df) ==
    [i \in 1..Len(df) |-> [c \in DOMAIN df[i] \cup {"Diff"} |->
        IF c = "Diff" THEN Val(df[i].Expected_Pages) - Val(df[i].Printed_Pages)
        ELSE df[i][c]]]

\* matched = merged[_merge == 'both'] with Diff = Printed Pages - Expected_Pages
with_Diff(df) ==
    [i \in 1..Len(df) |-> [c \in DOMAIN df[i] \cup {"Diff"} |->
        IF c = "Diff" THEN Val(df[i].Printed_Pages) - Val(df[i].Expected_Pages)
        ELSE df[i][c]]]

make_matched(m) == with_Diff(SelectSeq(m, is_both))

has_diff(row) == row.Diff # 0
make_mismatches(m) == SelectSeq(m, has_diff)

\* ------------------------------------------------------------ proof section
is_large(row) == abs(row.Diff) > 10
make_large_mismatches(mm) == SelectSeq(mm, is_large)

\* The select box label of a row: invoice, customer and diff.
label_of(row) == <<Val(row.Invoice_No), Val(row.Customer_Name), row.Diff>>
make_labels(large) == [i \in 1..Len(large) |-> label_of(large[i])]

\* dict(zip(labels, large_mismatches['DR_Num'])): a later row replaces an
\* earlier one of the same label.
dr_map(large, l) ==
    large[Max({i \in 1..Len(large) : label_of(large[i]) = l})].DR_Num

\* fuji_with_dr[DR_Num == selected_dr][[Recorded Date/Time, Job Name,
\* Printed Pages, Owner]]
proof_rows(with_dr, dr) ==
    LET g == group_rows(with_dr, dr)
    IN  [i \in 1..Len(g) |-> [Recorded |-> g[i].Recorded, Job_Name |-> g[i].Job_Name,
                              Printed_Pages |-> g[i].Printed_Pages, Owner |-> g[i].Owner]]

\* if selected_dr: -- the float 0.0 is false
shows_proof(dr) == dr # 0

\* The proof section for the label at position choice of the select box:
\* the selected DR number and the table shown (NaN when none is shown).
proof_section(mm, with_dr, choice) ==
    LET large == make_large_mismatches(mm)
    IN  IF large = <<>> THEN [selected_dr |-> NaN, proof |-> NaN]
        ELSE LET dr == dr_map(large, make_labels(large)[choice])
             IN  [selected_dr |-> Some(dr),
                  proof |-> IF shows_proof(dr) THEN Some(proof_rows(with_dr, dr)) ELSE NaN]

\* ----------------------------------------------------------------- actions
Init ==
    /\ pos_file = NaN
    /\ fuji_file = NaN
    /\ pc = "idle"
    /\ pos_df = <<>>
    /\ pos_print = <<>>
    /\ pos_grouped = <<>>
    /\ fuji_df = <<>>
    /\ anonymous_summary = <<>>
    /\ fuji_with_dr = <<>>
    /\ fuji_grouped = <<>>
    /\ merged = <<>>
    /\ unprinted = <<>>
    /\ matched = <<>>
    /\ mismatches = <<>>
    /\ selected_dr = NaN
    /\ proof = NaN

\* Nothing is shown: the state of the tables before any audit.
NoResults ==
    /\ pos_df' = <<>>
    /\ pos_print' = <<>>
    /\ pos_grouped' = <<>>
    /\ fuji_df' = <<>>
    /\ anonymous_summary' = <<>>
    /\ fuji_with_dr' = <<>>
    /\ fuji_grouped' = <<>>
    /\ merged' = <<>>
    /\ unprinted' = <<>>
    /\ matched' = <<>>
    /\ mismatches' = <<>>
    /\ selected_dr' = NaN
    /\ proof' = NaN

\* The script body with both files present: POS prep, Fuji prep,
\* categorization, reconciliation, and the proof section for the first label
\* of the select box.
Process(pos, fuji) ==
    /\ LET pdf == pos_with_DR(pos)
           pp == make_pos_print(pdf)
           pg == make_pos_grouped(pp)
           fdf == make_fuji_df(fuji)
           fwd == make_fuji_with_dr(fdf)
           fg == make_fuji_grouped(fwd)
           mg == outer_merge(pg, fg)
           mt == make_matched(mg)
           mm == make_mismatches(mt)
           ps == proof_section(mm, fwd, 1)
       IN  /\ pos_df' = pdf
           /\ pos_print' = pp
           /\ pos_grouped' = pg
           /\ fuji_df' = fdf
           /\ anonymous_summary' \in sort_values_desc(anonymous_grouped(make_anonymous_raw(fdf)))
           /\ fuji_with_dr' = fwd
           /\ fuji_grouped' = fg
           /\ merged' = mg
           /\ unprinted' = make_unprinted(mg)
           /\ matched' = mt
           /\ mismatches' = mm
           /\ selected_dr' = ps.selected_dr
           /\ proof' = ps.proof
    /\ pc' = "audited"

\* One run of the script, as every interaction with a widget triggers it:
\* without both files only the hint to upload them is shown.
Rerun(pf, ff) ==
    IF notnull(pf) /\ notnull(ff)
    THEN Process(Val(pf), Val(ff))
    ELSE pc' = "idle" /\ NoResults

\* The POS file uploader delivers a table and the script runs.
UploadPos ==
    /\ pos_file = NaN
    /\ \E t \in PosTables :
          /\ Len(t) + file_rows(fuji_file) <= MaxRows
          /\ pos_file' = Some(t)
          /\ Rerun(Some(t), fuji_file)
    /\ UNCHANGED fuji_file

\* The Fuji file uploader delivers a table and the script runs.
UploadFuji ==
    /\ fuji_file = NaN
    /\ \E t \in FujiTables :
          /\ file_rows(pos_file) + Len(t) <= MaxRows
          /\ fuji_file' = Some(t)
          /\ Rerun(pos_file, Some(t))
    /\ UNCHANGED pos_file

\* The user picks another label of the select box; the rerun shows its proof.
SelectLabel(choice) ==
    /\ pc = "audited"
    /\ choice \in 1..Len(make_large_mismatches(mismatches))
    /\ LET ps == proof_section(mismatches, fuji_with_dr, choice)
       IN  /\ selected_dr' = ps.selected_dr
           /\ proof' = ps.proof
    /\ UNCHANGED <<pos_file, fuji_file, pc, results>>

\* Restart App: session state cleared (the uploaders with it), the script
\* starts over.
restart_app ==
    /\ pos_file' = NaN
    /\ fuji_file' = NaN
    /\ pc' = "idle"
    /\ NoResults

Next ==
    \/ UploadPos
    \/ UploadFuji
    \/ \E choice \in 1..MaxPos : SelectLabel(choice)
    \/ restart_app

Spec == Init /\ [][Next]_vars

\* ================================================================ claims
\* Helpers of the statements below.
ids(rows) == {rows[i].DR_Num : i \in 1..Len(rows)}
is_right_only(row) == row.merge = "right_only"
has_no_diff(row) == row.Diff = 0
\* The reconciliation rows of the printer-only case and of diff = 0.
printer_only == SelectSeq(merged, is_right_only)
matched_exact == SelectSeq(matched, has_no_diff)
\* The four columns of the uploaded POS row a prepared row comes from.
pos_base(row) ==
    [Invoice_No |-> row.Invoice_No, Item_Name |-> row.Item_Name,
     Sales_Qty |-> row.Sales_Qty, Customer_Name |-> row.Customer_Name]
Disjoint(A, B) == A \cap B = {}

\* ---- C1
\* C1: after an audit the unprinted, matched (diff = 0), mismatched and
\* printer-only rows are pairwise disjoint, every aggregated POS group and
\* every aggregated identified-printer group is in one of them, and their
\* sizes add up to the number of distinct identifiers of the two aggregates.
C1_Partition ==
    pc = "audited" =>
        LET U == ids(unprinted)
            Z == ids(matched_exact)
            M == ids(mismatches)
            P == ids(printer_only)
            all == key_set(pos_grouped) \cup key_set(fuji_grouped)
        IN  /\ Disjoint(U, Z) /\ Disjoint(U, M) /\ Disjoint(U, P)
            /\ Disjoint(Z, M) /\ Disjoint(Z, P) /\ Disjoint(M, P)
            /\ \A k \in all : k \in U \cup Z \cup M \cup P
            /\ Len(unprinted) + Len(matched_exact) + Len(mismatches) + Len(printer_only)
                  = Cardinality(all)

\* An audit with an unprinted, a matched and a printer-only identifier.
C1_Witness ==
    /\ pc = "audited"
    /\ unprinted # <<>>
    /\ matched_exact # <<>>
    /\ printer_only # <<>>

\* ---- C2
\* The retained POS rows without identifier.
C2_absent_rows == SelectSeq(pos_print, has_no_DR)

\* C2: the retained POS rows whose invoice yields no identifier form one
\* group that joins no printer group and is reported in the unprinted set
\* with their expected pages.
C2_AbsentGroupUnprinted ==
    pc = "audited" /\ C2_absent_rows # <<>> =>
        /\ \E i \in 1..Len(unprinted) :
              /\ unprinted[i].Invoice_No = Some(C2_absent_rows[1].Invoice_No)
              /\ unprinted[i].Expected_Pages =
                    Some(nansum(column(C2_absent_rows, "Expected_Pages")))
        /\ \A i \in 1..Len(matched) :
              matched[i].Invoice_No # Some(C2_absent_rows[1].Invoice_No)

\* ---- C3
\* The rows of PosRows whose quantity is no number once commas and
\* surrounding white space are gone; the printer rows whose printed-page
\* cell is missing or no number.
C3_UnparseableQty ==
    {r \in PosRows : isnull(to_numeric(strip(remove_commas(r.Sales_Qty))))}
C3_BadPages ==
    {r \in FujiRows : isnull(r.Printed_Pages) \/ isnull(to_numeric(Val(r.Printed_Pages)))}

\* C3: a retained POS row with an unparseable quantity has expected pages 0,
\* a printer row with a missing or non-numeric page value counts 0, and no
\* expected pages, printed total or diff is NaN.
C3_CoercionToZero ==
    pc = "audited" =>
        /\ \A i \in 1..Len(pos_print) :
              /\ pos_base(pos_print[i]) \in C3_UnparseableQty =>
                    pos_print[i].Expected_Pages = Some(0)
              /\ notnull(pos_print[i].Expected_Pages)
        /\ \A i \in 1..Len(fuji_df) :
              Val(fuji_file)[i] \in C3_BadPages => fuji_df[i].Printed_Pages = 0
        /\ \A i \in 1..Len(pos_grouped) : pos_grouped[i].Expected_Pages \in Int
        /\ \A i \in 1..Len(fuji_grouped) : fuji_grouped[i].Printed_Pages \in Int
        /\ \A i \in 1..Len(matched) : matched[i].Diff \in Int

\* ---- C4
\* The claim's extractor: the marker in any letter case, white space after
\* it on the printer side only.
C4_pos_identifier == [r \in PosRows |-> extract_DR(upper(r.Invoice_No))]
C4_fuji_identifier == [r \in FujiRows |-> extract_DR_space(upper(r.Job_Name))]

\* C4: the identifier of a POS invoice or printer job name is the number
\* after the first marker "DR" followed by digits, the marker in any letter
\* case, and is absent (not 0) without such a marker.
C4_ExtractorIgnoresCase ==
    pc = "audited" =>
        /\ \A i \in 1..Len(pos_df) :
              pos_df[i].DR_Num = C4_pos_identifier[pos_base(pos_df[i])]
        /\ \A i \in 1..Len(fuji_df) :
              fuji_df[i].DR_Num = C4_fuji_identifier[Val(fuji_file)[i]]

\* ---- C5
\* The claim's filter: "digital print" and neither "proof" nor "sticker",
\* as case-insensitive substrings; and the rows of PosRows passing it.
C5_qualifies(row) ==
    /\ contains_nocase(row.Item_Name, <<"d", "i", "g", "i", "t", "a", "l", " ", "p", "r", "i", "n", "t">>)
    /\ ~contains_nocase(row.Item_Name, <<"p", "r", "o", "o", "f">>)
    /\ ~contains_nocase(row.Item_Name, <<"s", "t", "i", "c", "k", "e", "r">>)
C5_Qualifying == {r \in PosRows : C5_qualifies(r)}
C5_pages == [r \in PosRows |-> calc_pages(r)]
\* The rows of the POS table that qualify and carry the identifier k.
C5_group(k) ==
    LET in_group(row) == pos_base(row) \in C5_Qualifying /\ row.DR_Num = Some(k)
    IN  SelectSeq(pos_df, in_group)

\* C5: only rows whose item name has "digital print" and neither "proof" nor
\* "sticker" reach the aggregation: every row of pos_print is such a row, a
\* group exists only for the identifier of such a row, and a group's total
\* is the sum over such rows alone.
C5_FilterBeforeAggregation ==
    pc = "audited" =>
        /\ \A i \in 1..Len(pos_print) : pos_base(pos_print[i]) \in C5_Qualifying
        /\ key_set(pos_grouped) =
              {k \in group_keys(pos_df) : C5_group(k) # <<>>}
        /\ \A i \in 1..Len(pos_grouped) :
              LET g == C5_group(pos_grouped[i].DR_Num)
              IN  pos_grouped[i].Expected_Pages =
                     nansum([j \in 1..Len(g) |-> C5_pages[pos_base(g[j])]])

\* An audit whose POS table has a proof or sticker row under the identifier
\* of an aggregated group.
C5_Witness ==
    /\ pc = "audited"
    /\ \E i \in 1..Len(pos_df) :
          /\ pos_base(pos_df[i]) \in {r \in PosRows : is_excluded(r)}
          /\ notnull(pos_df[i].DR_Num)
          /\ Val(pos_df[i].DR_Num) \in key_set(pos_grouped)

\* ---- C6
\* The claim's expected pages of a row: the quantity without commas and
\* surrounding white space, doubled under the two-sided marker in any case.
C6_quantity(row) == to_numeric(strip(remove_commas(row.Sales_Qty)))
C6_expected(row) ==
    IF isnull(C6_quantity(row)) THEN NaN
    ELSE IF contains_nocase(row.Item_Name, <<"2", " ", "s", "i", "d", "e", "s">>)
         THEN Some(2 * Val(C6_quantity(row)))
         ELSE C6_quantity(row)
C6_expected_of == [r \in PosRows |-> C6_expected(r)]
C6_two_sided == {r \in PosRows : contains_nocase(r.Item_Name, <<"2", " ", "s", "i", "d", "e", "s">>)}

\* C6: a retained row with a parseable quantity has expected pages quantity
\* x 2 when two-sided, quantity otherwise (one-sided "1,200" gives 1200,
\* two-sided "10" gives 20), and a group's total is the sum of these values
\* over the retained rows of its identifier.
C6_ExpectedPages ==
    pc = "audited" =>
        /\ \A i \in 1..Len(pos_print) :
              LET r == pos_base(pos_print[i])
              IN  /\ notnull(C6_expected_of[r]) =>
                        pos_print[i].Expected_Pages = C6_expected_of[r]
                  /\ r.Sales_Qty = <<"1", ",", "2", "0", "0">> /\ r \notin C6_two_sided =>
                        pos_print[i].Expected_Pages = Some(1200)
                  /\ r.Sales_Qty = <<"1", "0">> /\ r \in C6_two_sided =>
                        pos_print[i].Expected_Pages = Some(20)
        /\ \A i \in 1..Len(pos_grouped) :
              LET g == group_rows(pos_print, pos_grouped[i].DR_Num)
              IN  pos_grouped[i].Expected_Pages =
                     nansum([j \in 1..Len(g) |-> C6_expected_of[pos_base(g[j])]])

\* An audit with a one-sided and a two-sided row in one group: 5 + 2 x 10.
C6_Witness ==
    /\ pc = "audited"
    /\ \E i \in 1..Len(pos_grouped) :
          /\ pos_grouped[i].Expected_Pages = 25
          /\ Len(group_rows(pos_print, pos_grouped[i].DR_Num)) = 2

\* ---- C7
\* The single-row tables of the claim's scenario.
C7_pos_is_DR100_qty5 ==
    /\ notnull(pos_file)
    /\ Len(Val(pos_file)) = 1
    /\ Val(pos_file)[1].Invoice_No = <<"D", "R", "1", "0", "0">>
    /\ Val(pos_file)[1].Item_Name = <<"D", "I", "G", "I", "T", "A", "L", " ", "P", "R", "I", "N", "T", " ", "1", " ", "S", "I", "D", "E">>
    /\ Val(pos_file)[1].Sales_Qty = <<"5">>
C7_printer_is_JobDR100(pages) ==
    /\ notnull(fuji_file)
    /\ Len(Val(fuji_file)) = 1
    /\ Val(fuji_file)[1].Job_Name = <<"J", "o", "b", " ", "D", "R", "1", "0", "0">>
    /\ Val(fuji_file)[1].Printed_Pages = Some(pages)
C7_one_mismatch(diff) ==
    /\ Len(mismatches) = 1
    /\ mismatches[1].DR_Num = 100
    /\ mismatches[1].Diff = diff
    /\ matched_exact = <<>>
    /\ unprinted = <<>>

\* C7: for an identifier of both aggregates diff = printed total - expected
\* total, the row is mismatched exactly when diff # 0 and matched exactly
\* when diff = 0; the unprinted identifiers are those of the POS groups in
\* no printer group; DR100 with quantity 5 against 5, 8 and 20 printed pages
\* is matched, mismatched by 3 and mismatched by 15.
C7_Classification ==
    pc = "audited" =>
        /\ \A k \in key_set(pos_grouped) \cap key_set(fuji_grouped) :
              LET d == row_of(fuji_grouped, k).Printed_Pages
                          - row_of(pos_grouped, k).Expected_Pages
              IN  /\ \E i \in 1..Len(matched) :
                        matched[i].DR_Num = k /\ matched[i].Diff = d
                  /\ k \in ids(mismatches) <=> d # 0
                  /\ k \in ids(matched_exact) <=> d = 0
        /\ ids(matched) = key_set(pos_grouped) \cap key_set(fuji_grouped)
        /\ ids(unprinted) = key_set(pos_grouped) \ key_set(fuji_grouped)
        /\ C7_pos_is_DR100_qty5 /\ C7_printer_is_JobDR100(<<"5">>) =>
              /\ mismatches = <<>>
              /\ Len(matched_exact) = 1
              /\ matched_exact[1].DR_Num = 100
              /\ matched_exact[1].Diff = 0
        /\ C7_pos_is_DR100_qty5 /\ C7_printer_is_JobDR100(<<"8">>) => C7_one_mismatch(3)
        /\ C7_pos_is_DR100_qty5 /\ C7_printer_is_JobDR100(<<"2", "0">>) => C7_one_mismatch(15)

\* The scenario with 20 printed pages, audited.
C7_Witness ==
    /\ pc = "audited"
    /\ C7_pos_is_DR100_qty5
    /\ C7_printer_is_JobDR100(<<"2", "0">>)
    /\ mismatches # <<>>

\* ---- C8
\* The identified printer rows of the identifier dr, in table order, in the
\* four columns of the proof.
C8_rows_of(dr) ==
    LET of_dr(row) == row.DR_Num = Some(dr)
        g == SelectSeq(fuji_df, of_dr)
    IN  [i \in 1..Len(g) |-> [Recorded |-> g[i].Recorded, Job_Name |-> g[i].Job_Name,
                              Printed_Pages |-> g[i].Printed_Pages, Owner |-> g[i].Owner]]

\* C8: a mismatch is eligible for proof exactly when |diff| > 10, and for
\* the selected eligible row, whatever its identifier (0 included), the
\* proof is the identified printer rows of that identifier.
C8_ProofOfEveryEligible ==
    pc = "audited" =>
        /\ notnull(selected_dr) <=>
              \E i \in 1..Len(mismatches) : abs(mismatches[i].Diff) > 10
        /\ notnull(selected_dr) =>
              /\ \E i \in 1..Len(mismatches) :
                    /\ mismatches[i].DR_Num = Val(selected_dr)
                    /\ abs(mismatches[i].Diff) > 10
              /\ proof = Some(C8_rows_of(Val(selected_dr)))

\* ---- C9
\* The printer records without identifier, and those of them an anonymous
\* row stands for.
C9_records == SelectSeq(fuji_df, has_no_DR)
C9_records_of(row) ==
    LET of_pair(rec) == rec.Job_Name = row.Job_Name /\ rec.Owner = Some(row.Artist_Name)
    IN  SelectSeq(C9_records, of_pair)

\* C9: every printer record without identifier is counted in exactly one
\* anonymous row, that of its (job name, owner) pair; a row carries the sum
\* of the pages and the latest timestamp of its records; the pages of the
\* anonymous set add up to the pages of all records without identifier.
C9_AnonymousCountsEveryRecord ==
    pc = "audited" =>
        /\ \A i \in 1..Len(C9_records) :
              Cardinality({j \in 1..Len(anonymous_summary) :
                  /\ anonymous_summary[j].Job_Name = C9_records[i].Job_Name
                  /\ Some(anonymous_summary[j].Artist_Name) = C9_records[i].Owner}) = 1
        /\ \A j \in 1..Len(anonymous_summary) :
              LET recs == C9_records_of(anonymous_summary[j])
              IN  /\ recs # <<>>
                  /\ anonymous_summary[j].Printed_Pages = sum(column(recs, "Printed_Pages"))
                  /\ anonymous_summary[j].Recorded = Max(Range(column(recs, "Recorded")))
        /\ sum(column(anonymous_summary, "Printed_Pages"))
              = sum(column(C9_records, "Printed_Pages"))

\* ---- C10
\* Position in the printer table of the first record of an anonymous row.
C10_first_record(row) ==
    Min({i \in 1..Len(fuji_df) :
            /\ isnull(fuji_df[i].DR_Num)
            /\ fuji_df[i].Job_Name = row.Job_Name
            /\ fuji_df[i].Owner = Some(row.Artist_Name)})

\* C10: the anonymous set is in descending order of summed pages, rows of
\* equal pages in the order of their first records in the printer table.
C10_TiesInInputOrder ==
    pc = "audited" =>
        \A i \in 1..Len(anonymous_summary) : \A j \in 1..Len(anonymous_summary) :
            i < j =>
                \/ anonymous_summary[i].Printed_Pages > anonymous_summary[j].Printed_Pages
                \/ /\ anonymous_summary[i].Printed_Pages = anonymous_summary[j].Printed_Pages
                   /\ C10_first_record(anonymous_summary[i])
                         < C10_first_record(anonymous_summary[j])

====
